---- MODULE Spec2Model ----
(***************************************************************************)
(* Three Beans Cafe backend: the Express application of src/src/server.js  *)
(* with the user router (src/src/controllers/UserRouter.js) and the menu   *)
(* router (src/src/controllers/MenuRouter.js) over the document store.     *)
(*                                                                         *)
(* Every request is a process.  A handler runs synchronously up to its     *)
(* next `await`; each awaited store operation is one atomic step of the    *)
(* store, so the steps of concurrent requests interleave freely.           *)
(***************************************************************************)
EXTENDS Integers, Sequences, FiniteSets, TLC

\* Number of requests in flight over the life of one run.
MaxReq == 2

Reqs == 1..MaxReq

\* An absent (undefined) body field, header or document field.
None == "none"

Emails == {"admin@test.com", "new@test.com"}
Passwords == {"password", "secret"}
NewName == "New Name"
SignupName == "New User"
NewBirthday == "2000-01-01"

(***************************************************************************)
(* Values                                                                  *)
(***************************************************************************)

\* A password string: the plain text and how many times bcrypt hashed it.
Plain(p) == [plain |-> p, rounds |-> 0]

NoPassword == Plain(None)

\* bcrypt.hash(s, 10): one more round over whatever string it is given.
BcryptHash(s) == [plain |-> s.plain, rounds |-> s.rounds + 1]

\* bcrypt.compare(p, stored): stored is the hash of the plain text p.
BcryptCompare(p, stored) == stored = BcryptHash(Plain(p))

\* ObjectId.toString(): the hex string of an identifier.
IdString(id) == [hex |-> id]

NoUserId == IdString(0)

\* Casting the string of a query back to an ObjectId (findById).
CastId(s) == s.hex

\* `if (field)`: undefined and the empty string are falsy.
Truthy(v) == v \notin {None, ""}

NoDoc ==
    [id |-> 0, email |-> None, password |-> NoPassword, name |-> None,
     birthday |-> None, admin |-> FALSE]

\* The admin user seeded into the store (tests/MenuRouter.test.js beforeEach).
AdminUser ==
    [id |-> 1, email |-> "admin@test.com",
     password |-> BcryptHash(Plain("password")), name |-> "Admin User",
     birthday |-> None, admin |-> TRUE]

(***************************************************************************)
(* Tokens                                                                  *)
(***************************************************************************)

NoToken == [kind |-> "none", sub |-> NoUserId]

\* A malformed, unsigned or expired token string.
BadToken == [kind |-> "bad", sub |-> NoUserId]

\* createJwt: a signed token that encodes the user's identifier.
CreateJwt(id) == [kind |-> "jwt", sub |-> IdString(id)]

\* jwt.verify succeeds exactly on the tokens createJwt signed.
VerifyOk(token) == token.kind = "jwt"

(***************************************************************************)
(* Messages (a response message is the sequence of its pieces)             *)
(***************************************************************************)

MsgTokenRequired == <<"Authentication token is required">>
MsgInvalidToken == <<"Invalid token">>
MsgAccessDenied == <<"Access denied! must be an admin.">>
MsgDuplicateEmail == <<"A profile with this email already exists.">>
MsgEmailNotFound == <<"Email not found.">>
MsgWrongPassword ==
    <<"Your password is incorrect, please double check and try again.">>
MsgUserNotFound == <<"User not found.">>
MsgEmailInUse == <<"This email is already in use.">>
MsgErrorOccured == <<"Error Occured!">>
MsgPageNotFound == <<"404 Page not found">>
MsgNoItemsInCategory == <<"There are currently no items in this category.">>
MsgItemNotFound == <<"Item not found">>
MsgCategoryInUse ==
    <<"Cannot delete this category as there are still items associated with it.">>
MsgUserRouter == <<"User router operation">>
MsgWelcome == <<"Welcome to Three Beans Cafe!">>
MsgProfileUpdated == <<"Profile updated successfully!">>
MsgSignedUp(name) == <<"Thank you for signing up to Three Beans ", name, "!">>
MsgLoggedIn(name) == <<name, " has logged in successfully!">>
MsgUserDeleted(name) == <<"User ", name, " deleted successfully.">>

VARIABLES
    users,       \* the User collection: a set of user documents
    nextId,      \* the next identifier the driver hands out
    categories,  \* the Category collection
    items,       \* the Item collection
    req          \* req[r]: request r, its handler's locals and its response

vars == <<users, nextId, categories, items, req>>


(***************************************************************************)
(* Requests and responses                                                  *)
(***************************************************************************)

EmptyBody == [email |-> None, password |-> None, name |-> None, birthday |-> None]

\* A request nobody has sent yet.
Idle ==
    [method |-> None, path |-> <<>>, token |-> NoToken, body |-> EmptyBody,
     handler |-> "idle", pc |-> "idle", userId |-> NoUserId, user |-> NoDoc,
     mods |-> {}, status |-> 0, message |-> <<>>, rtoken |-> NoToken,
     result |-> {}, err |-> None]

\* response.status(s).json({message: m}); the handler returns.
Respond(q, s, m) == [q EXCEPT !.pc = "done", !.status = s, !.message = m]

\* response.status(s).json({message: m, token: t}).
RespondToken(q, s, m, t) == [Respond(q, s, m) EXCEPT !.rtoken = t]

\* response.json({result: found}) with the default status.
RespondResult(q, found) == [Respond(q, 200, <<>>) EXCEPT !.result = found]

\* next(error): the error-handling middleware of server.js.  None of the
\* errors the store raises carries a `status`, so the response is a 500.
ErrorHandler(q, kind) == [Respond(q, 500, MsgErrorOccured) EXCEPT !.err = kind]

\* An async handler without try/catch rejects: the promise is dropped and
\* the request is left without a response (Express 4), or the rejection is
\* forwarded to the error-handling middleware (Express 5).
Rejected(q, kind) ==
    {[q EXCEPT !.pc = "done", !.err = kind], ErrorHandler(q, kind)}

(***************************************************************************)
(* Routing (server.js and the routers' route tables, in registration order)*)
(***************************************************************************)

UserRoute(method, rest) ==
    IF method = "GET" /\ rest = <<>> THEN "getUsers"
    ELSE IF method = "POST" /\ rest = <<"signup">> THEN "signup"
    ELSE IF method = "POST" /\ rest = <<"login">> THEN "login"
    ELSE IF method = "PATCH" /\ rest = <<"update">> THEN "update"
    ELSE IF method = "DELETE" /\ rest = <<"delete">> THEN "delete"
    ELSE "unmatched"

MenuRoute(method, rest) ==
    IF method # "GET" THEN "unmatched"
    ELSE IF rest = <<>> THEN "listItems"
    ELSE IF rest = <<"categories">> THEN "listCategories"
    ELSE IF Len(rest) = 1 THEN "getItem"
    ELSE IF Len(rest) = 2 /\ rest[1] = "categories" THEN "itemsByCategory"
    ELSE "unmatched"

\* app.get("*") answers unmatched GET requests only; any other method falls
\* off the end of the stack into Express's default 404 (no JSON message).
Fallthrough(method) == IF method = "GET" THEN "pageNotFound" ELSE "noRoute"

Dispatch(method, path) ==
    LET mounted ==
            IF path = <<>> THEN
                IF method = "GET" THEN "root" ELSE "unmatched"
            ELSE IF Head(path) = "users" THEN UserRoute(method, Tail(path))
            ELSE IF Head(path) = "menu" THEN MenuRoute(method, Tail(path))
            ELSE "unmatched"
    IN  IF mounted = "unmatched" THEN Fallthrough(method) ELSE mounted

\* verifyJwt: no header, a token that fails verification, or the identity
\* attached to the request.
VerifyJwt(q) ==
    IF q.token = NoToken THEN Respond(q, 401, MsgTokenRequired)
    ELSE IF ~VerifyOk(q.token) THEN Respond(q, 401, MsgInvalidToken)
    ELSE [q EXCEPT !.userId = q.token.sub, !.pc = "findById"]

\* The request enters the application: routing, then the synchronous part
\* of the route up to its first store operation.
Enter(in) ==
    LET h == Dispatch(in.method, in.path)
        q == [Idle EXCEPT !.method = in.method, !.path = in.path,
                          !.token = in.token, !.body = in.body,
                          !.handler = h]
    IN  IF h = "root" THEN Respond(q, 200, MsgWelcome)
        ELSE IF h = "pageNotFound" THEN Respond(q, 404, MsgPageNotFound)
        ELSE IF h = "noRoute" THEN Respond(q, 404, <<>>)
        ELSE IF h \in {"update", "delete"} THEN VerifyJwt(q)
        ELSE [q EXCEPT !.pc = "find"]

(***************************************************************************)
(* The User collection                                                     *)
(***************************************************************************)

\* UserModel.findOne({email}): a document with that email, or null.
FindOne(email) ==
    IF \E u \in users : u.email = email
    THEN CHOOSE u \in users : u.email = email
    ELSE NoDoc

\* UserModel.findById(id): the document with that identifier, or null.
FindById(id) ==
    IF \E u \in users : u.id = id
    THEN CHOOSE u \in users : u.id = id
    ELSE NoDoc

DuplicateKeyUnindexed(doc) == FALSE

\* The unique index on email: another document already holds doc's email.
DuplicateKey(doc) == \E u \in users : u.id # doc.id /\ u.email = doc.email

\* save() of a new document: the password is hashed on the way in.
Inserted(doc) == [doc EXCEPT !.password = BcryptHash(@)]

\* save() of a loaded document writes its modified paths only.
Updated(stored, doc, mods) ==
    [f \in DOMAIN stored |-> IF f \in mods THEN doc[f] ELSE stored[f]]

\* user.field = v: the path counts as modified when the value changes.
Assign(q, f, v) ==
    [q EXCEPT !.user = [@ EXCEPT ![f] = v],
              !.mods = IF v = q.user[f] THEN @ ELSE @ \cup {f}]


(***************************************************************************)
(* Inputs                                                                  *)
(***************************************************************************)

\* The tokens a client can present: none, a bad one, the seeded user's, and
\* any token a response has handed out.
KnownTokens ==
    {NoToken, BadToken, CreateJwt(AdminUser.id)}
        \cup {req[q].rtoken : q \in Reqs}

Patches ==
    {[EmptyBody EXCEPT !.name = NewName],
     [EmptyBody EXCEPT !.birthday = NewBirthday],
     [EmptyBody EXCEPT !.password = "secret"]}
        \cup {[EmptyBody EXCEPT !.email = e] : e \in Emails}
        \cup {[EmptyBody EXCEPT !.email = e, !.name = NewName] : e \in Emails}

Credentials ==
    {[EmptyBody EXCEPT !.email = e, !.password = p] :
        e \in Emails, p \in Passwords}

Get(path) == [method |-> "GET", path |-> path, token |-> NoToken, body |-> EmptyBody]

UserInputs ==
    {Get(<<"users">>)}
        \cup {[method |-> "POST", path |-> <<"users", "signup">>,
               token |-> NoToken, body |-> [c EXCEPT !.name = SignupName]] :
                 c \in Credentials}
        \cup {[method |-> "POST", path |-> <<"users", "login">>,
               token |-> NoToken, body |-> c] : c \in Credentials}
        \cup {[method |-> "PATCH", path |-> <<"users", "update">>,
               token |-> t, body |-> b] :
                 t \in {k \in KnownTokens : VerifyOk(k)}, b \in Patches}
        \cup {[method |-> "PATCH", path |-> <<"users", "update">>,
               token |-> t, body |-> EmptyBody] : t \in {NoToken, BadToken}}
        \cup {[method |-> "DELETE", path |-> <<"users", "delete">>,
               token |-> t, body |-> EmptyBody] : t \in KnownTokens}

(***************************************************************************)
(* The user router                                                         *)
(***************************************************************************)

Step(r, q) == req' = [req EXCEPT ![r] = q]

At(r, handler, pc) == req[r].handler = handler /\ req[r].pc = pc

\* A client sends a request to one of the /users routes.
SendUserRequest(r) ==
    /\ req[r].pc = "idle"
    /\ \E in \in UserInputs : Step(r, Enter(in))
    /\ UNCHANGED <<users, nextId, categories, items>>

\* GET /users: find({}) and the response; no try/catch around the await.
GetUsers(r) ==
    /\ At(r, "getUsers", "find")
    /\ \/ Step(r, Respond(req[r], 200, MsgUserRouter))
       \/ \E q \in Rejected(req[r], "store") : Step(r, q)
    /\ UNCHANGED <<users, nextId, categories, items>>

\* POST /users/signup up to save(): the duplicate check, then the new
\* document (the driver assigns its identifier on construction).
SignupFind(r) ==
    LET q == req[r]
        existingUser == FindOne(q.body.email)
        newUser ==
            [id |-> nextId, email |-> q.body.email,
             password |-> Plain(q.body.password), name |-> q.body.name,
             birthday |-> q.body.birthday, admin |-> FALSE]
    IN  /\ At(r, "signup", "find")
        /\ \/ /\ existingUser # NoDoc
              /\ Step(r, Respond(q, 400, MsgDuplicateEmail))
              /\ UNCHANGED nextId
           \/ /\ existingUser = NoDoc
              /\ Step(r, [q EXCEPT !.user = newUser, !.pc = "save"])
              /\ nextId' = nextId + 1
           \/ /\ Step(r, ErrorHandler(q, "store"))
              /\ UNCHANGED nextId
        /\ UNCHANGED <<users, categories, items>>

\* POST /users/signup from save() on: the insert, the token, the response.
SignupSave(r) ==
    LET q == req[r]
    IN  /\ At(r, "signup", "save")
        /\ \/ /\ ~DuplicateKey(q.user)
              /\ users' = users \cup {Inserted(q.user)}
              /\ Step(r, RespondToken(q, 201, MsgSignedUp(q.body.name),
                                      CreateJwt(q.user.id)))
           \/ /\ DuplicateKey(q.user)
              /\ Step(r, ErrorHandler(q, "duplicate"))
              /\ UNCHANGED users
           \/ /\ Step(r, ErrorHandler(q, "store"))
              /\ UNCHANGED users
        /\ UNCHANGED <<nextId, categories, items>>

\* POST /users/login: the lookup by email.
LoginFind(r) ==
    LET q == req[r]
        user == FindOne(q.body.email)
    IN  /\ At(r, "login", "find")
        /\ \/ /\ user = NoDoc
              /\ Step(r, [Respond(q, 404, MsgEmailNotFound) EXCEPT !.user = user])
           \/ /\ user # NoDoc
              /\ Step(r, [q EXCEPT !.user = user, !.pc = "compare"])
           \/ Step(r, ErrorHandler(q, "store"))
        /\ UNCHANGED <<users, nextId, categories, items>>

LoginResultUnchecked(q, isPassword) ==
    RespondToken(q, 200, MsgLoggedIn(q.user.name), CreateJwt(q.user.id))

\* The two branches on isPassword (lines 80-95).
LoginResult(q, isPassword) ==
    IF ~isPassword
    THEN Respond(q, 401, MsgWrongPassword)
    ELSE RespondToken(q, 200, MsgLoggedIn(q.user.name), CreateJwt(q.user.id))

\* POST /users/login: bcrypt.compare against the loaded document.
LoginCompare(r) ==
    LET q == req[r]
        isPassword == BcryptCompare(q.body.password, q.user.password)
    IN  /\ At(r, "login", "compare")
        /\ Step(r, LoginResult(q, isPassword))
        /\ UNCHANGED <<users, nextId, categories, items>>

\* PATCH /users/update after the email check: the password, the birthday,
\* and save() is on its way.
AfterEmail(q) ==
    IF Truthy(q.body.password) THEN [q EXCEPT !.pc = "hash"]
    ELSE LET b == IF Truthy(q.body.birthday)
                  THEN Assign(q, "birthday", q.body.birthday) ELSE q
         IN  [b EXCEPT !.pc = "save"]

\* PATCH /users/update: findById of the token's user, then the name.
UpdateFindById(r) ==
    LET q == req[r]
        user == FindById(CastId(q.userId))
        loaded == [q EXCEPT !.user = user]
        named == IF Truthy(q.body.name)
                 THEN Assign(loaded, "name", q.body.name) ELSE loaded
    IN  /\ At(r, "update", "findById")
        /\ \/ /\ user = NoDoc
              /\ Step(r, Respond(q, 404, MsgUserNotFound))
           \/ /\ user # NoDoc
              /\ IF Truthy(q.body.email)
                 THEN Step(r, [named EXCEPT !.pc = "checkEmail"])
                 ELSE Step(r, AfterEmail(named))
           \/ Step(r, ErrorHandler(q, "store"))
        /\ UNCHANGED <<users, nextId, categories, items>>

EmailTakenByAnyone(existingUser, userId) == existingUser # NoDoc

\* The test of line 122: somebody else holds the email.
EmailTaken(existingUser, userId) ==
    existingUser # NoDoc /\ IdString(existingUser.id) # userId

\* PATCH /users/update: the lookup of the new email.
UpdateCheckEmail(r) ==
    LET q == req[r]
        existingUser == FindOne(q.body.email)
    IN  /\ At(r, "update", "checkEmail")
        /\ \/ IF EmailTaken(existingUser, q.userId)
              THEN Step(r, Respond(q, 400, MsgEmailInUse))
              ELSE Step(r, AfterEmail(Assign(q, "email", q.body.email)))
           \/ Step(r, ErrorHandler(q, "store"))
        /\ UNCHANGED <<users, nextId, categories, items>>

NewPasswordUnhashed(password) == Plain(password)

\* Line 131: the new password is hashed once before it is assigned.
NewPassword(password) == BcryptHash(Plain(password))

\* PATCH /users/update: bcrypt.hash of the new password.
UpdateHash(r) ==
    LET q == req[r]
        hashed == Assign(q, "password", NewPassword(q.body.password))
        b == IF Truthy(q.body.birthday)
             THEN Assign(hashed, "birthday", q.body.birthday) ELSE hashed
    IN  /\ At(r, "update", "hash")
        /\ Step(r, [b EXCEPT !.pc = "save"])
        /\ UNCHANGED <<users, nextId, categories, items>>

\* PATCH /users/update: save() of the loaded document, then the new token.
UpdateSave(r) ==
    LET q == req[r]
        stored == FindById(q.user.id)
    IN  /\ At(r, "update", "save")
        /\ \/ /\ stored = NoDoc
              /\ Step(r, ErrorHandler(q, "notFound"))
              /\ UNCHANGED users
           \/ /\ stored # NoDoc
              /\ "email" \in q.mods /\ DuplicateKey(q.user)
              /\ Step(r, ErrorHandler(q, "duplicate"))
              /\ UNCHANGED users
           \/ /\ stored # NoDoc
              /\ ~("email" \in q.mods /\ DuplicateKey(q.user))
              /\ users' = (users \ {stored}) \cup {Updated(stored, q.user, q.mods)}
              /\ Step(r, RespondToken(q, 200, MsgProfileUpdated,
                                      CreateJwt(q.user.id)))
           \/ /\ Step(r, ErrorHandler(q, "store"))
              /\ UNCHANGED users
        /\ UNCHANGED <<nextId, categories, items>>

\* DELETE /users/delete: findById of the token's user.
DeleteFindById(r) ==
    LET q == req[r]
        user == FindById(CastId(q.userId))
    IN  /\ At(r, "delete", "findById")
        /\ \/ /\ user = NoDoc
              /\ Step(r, Respond(q, 404, MsgUserNotFound))
           \/ /\ user # NoDoc
              /\ Step(r, [q EXCEPT !.user = user, !.pc = "remove"])
           \/ Step(r, ErrorHandler(q, "store"))
        /\ UNCHANGED <<users, nextId, categories, items>>

\* DELETE /users/delete: findByIdAndDelete, whose result is not looked at.
DeleteRemove(r) ==
    LET q == req[r]
    IN  /\ At(r, "delete", "remove")
        /\ \/ /\ users' = {u \in users : u.id # CastId(q.userId)}
              /\ Step(r, Respond(q, 200, MsgUserDeleted(q.user.name)))
           \/ /\ Step(r, ErrorHandler(q, "store"))
              /\ UNCHANGED users
        /\ UNCHANGED <<nextId, categories, items>>

(***************************************************************************)
(* The store as the tests seed it, and the specification of /users         *)
(***************************************************************************)

TestCategory == [id |-> "c1", name |-> "Test Category"]
TestCategory2 == [id |-> "c2", name |-> "Test Category 2"]
TestItem == [id |-> "i1", name |-> "Test Item", category |-> "c1"]

Init ==
    /\ users = {AdminUser}
    /\ nextId = 2
    /\ categories = {TestCategory, TestCategory2}
    /\ items = {TestItem}
    /\ req = [r \in Reqs |-> Idle]

Next ==
    \E r \in Reqs :
        \/ SendUserRequest(r)
        \/ GetUsers(r)
        \/ SignupFind(r)
        \/ SignupSave(r)
        \/ LoginFind(r)
        \/ LoginCompare(r)
        \/ UpdateFindById(r)
        \/ UpdateCheckEmail(r)
        \/ UpdateHash(r)
        \/ UpdateSave(r)
        \/ DeleteFindById(r)
        \/ DeleteRemove(r)

Spec == Init /\ [][Next]_vars

(***************************************************************************)
(* The menu router                                                         *)
(***************************************************************************)

\* The strings that cast to an ObjectId; anything else is a CastError.
ObjectIds == {"c1", "c2", "c9", "i1", "i2", "i3", "i9"}

TestUser ==
    [id |-> 2, email |-> "user@test.com",
     password |-> BcryptHash(Plain("password")), name |-> "Test User",
     birthday |-> None, admin |-> FALSE]

SecondItem == [id |-> "i2", name |-> "Second Item", category |-> "c1"]
ThirdItem == [id |-> "i3", name |-> "Third Item", category |-> "c2"]

\* The admin-only routes of the interface: method and path below /menu.
AdminRoutes ==
    {<<"POST", <<"menu", "create", "category">>>>,
     <<"POST", <<"menu", "create", "item">>>>}
        \cup {<<"PATCH", <<"menu", "update", "item", i>>>> : i \in {"i1"}}
        \cup {<<"DELETE", <<"menu", "delete", "item", i>>>> : i \in {"i1"}}
        \cup {<<"DELETE", <<"menu", "delete", "category", c>>>> :
                c \in {"c1", "c2", "c9"}}

MenuInputs ==
    {Get(<<>>), Get(<<"menu">>), Get(<<"menu", "categories">>),
     Get(<<"menu", "items">>)}
        \cup {Get(<<"menu", i>>) : i \in {"i1", "i9"}}
        \cup {Get(<<"menu", "item", i>>) : i \in {"i1", "i9"}}
        \cup {Get(<<"menu", "categories", c>>) : c \in {"c1", "c2", "c9"}}
        \cup {Get(<<"menu", "category", c>>) : c \in {"c1", "c2", "c9"}}
        \cup {[method |-> a[1], path |-> a[2], token |-> t, body |-> EmptyBody] :
                a \in AdminRoutes,
                t \in {NoToken, BadToken, CreateJwt(AdminUser.id),
                       CreateJwt(TestUser.id)}}
        \cup {[method |-> m, path |-> <<"users", a>>, token |-> t,
               body |-> EmptyBody] :
                m \in {"PATCH", "DELETE"}, a \in {"update", "delete"},
                t \in {NoToken, BadToken}}

\* A client sends a request to the menu, to an admin route, or a
\* token-protected request that carries no usable token.
SendMenuRequest(r) ==
    /\ req[r].pc = "idle"
    /\ \E in \in MenuInputs : Step(r, Enter(in))
    /\ UNCHANGED <<users, nextId, categories, items>>

\* GET /menu: every item.
ListItems(r) ==
    /\ At(r, "listItems", "find")
    /\ \/ Step(r, RespondResult(req[r], {i.id : i \in items}))
       \/ Step(r, ErrorHandler(req[r], "store"))
    /\ UNCHANGED <<users, nextId, categories, items>>

\* GET /menu/categories: every category.
ListCategories(r) ==
    /\ At(r, "listCategories", "find")
    /\ \/ Step(r, RespondResult(req[r], {c.id : c \in categories}))
       \/ Step(r, ErrorHandler(req[r], "store"))
    /\ UNCHANGED <<users, nextId, categories, items>>

\* GET /menu/:id: the item with that identifier.
GetItem(r) ==
    LET q == req[r]
        itemId == q.path[2]
        found == {i.id : i \in {j \in items : j.id = itemId}}
    IN  /\ At(r, "getItem", "find")
        /\ \/ /\ itemId \notin ObjectIds
              /\ Step(r, ErrorHandler(q, "cast"))
           \/ /\ itemId \in ObjectIds
              /\ IF found = {}
                 THEN Step(r, Respond(q, 404, MsgItemNotFound))
                 ELSE Step(r, RespondResult(q, found))
           \/ Step(r, ErrorHandler(q, "store"))
        /\ UNCHANGED <<users, nextId, categories, items>>

\* ItemModel.find({category: categoryId}).
ItemsOf(categoryId) == {i \in items : i.category = categoryId}

\* GET /menu/categories/:categoryId: the items of one category.
ItemsByCategory(r) ==
    LET q == req[r]
        categoryId == q.path[3]
        found == {i.id : i \in ItemsOf(categoryId)}
    IN  /\ At(r, "itemsByCategory", "find")
        /\ \/ /\ categoryId \notin ObjectIds
              /\ Step(r, ErrorHandler(q, "cast"))
           \/ /\ categoryId \in ObjectIds
              /\ IF Cardinality(found) = 0
                 THEN Step(r, Respond(q, 404, MsgNoItemsInCategory))
                 ELSE Step(r, RespondResult(q, found))
           \/ Step(r, ErrorHandler(q, "store"))
        /\ UNCHANGED <<users, nextId, categories, items>>

InitMenu ==
    /\ users = {AdminUser, TestUser}
    /\ nextId = 3
    /\ categories = {TestCategory, TestCategory2}
    /\ items \in SUBSET {TestItem, SecondItem, ThirdItem}
    /\ req = [r \in Reqs |-> Idle]

NextMenu ==
    \E r \in Reqs :
        \/ SendMenuRequest(r)
        \/ ListItems(r)
        \/ ListCategories(r)
        \/ GetItem(r)
        \/ ItemsByCategory(r)

SpecMenu == InitMenu /\ [][NextMenu]_vars

(***************************************************************************)
(* Properties                                                              *)
(***************************************************************************)

\* Request r takes a step of the given handler.
Steps(r, handler) == req'[r] # req[r] /\ req'[r].handler = handler

\* The users that hold an email in the current store.
Holders(email) == {u \in users : u.email = email}

\* C1: in every reachable state, whatever the interleaving of signup,
\* update and delete requests, no two persisted users have the same email.
EmailUnique == \A u, v \in users : u.email = v.email => u.id = v.id

\* Two signups for one email both passed the findOne check; one was saved
\* and the unique index turned the other away.
EmailUniqueWitness ==
    \E r, s \in Reqs :
        /\ r # s
        /\ req[r].handler = "signup" /\ req[s].handler = "signup"
        /\ req[r].body.email = req[s].body.email
        /\ req[r].status = 201
        /\ req[s].err = "duplicate"
        /\ \E u \in users : u.email = req[r].body.email

\* C3: login never changes the User store and ends in exactly one of three
\* ways: 404 "Email not found." when the store holds no user with the email;
\* 401 when the user found has another password hash; 200 with a token that
\* verifyJwt accepts and resolves to the identifier of the user found.
LoginContract ==
    [][\A r \in Reqs : Steps(r, "login") =>
          /\ users' = users
          /\ (req[r].pc = "find" /\ req'[r].err = None) =>
                IF Holders(req[r].body.email) = {}
                THEN /\ req'[r].pc = "done"
                     /\ req'[r].status = 404
                     /\ req'[r].message = MsgEmailNotFound
                     /\ req'[r].rtoken = NoToken
                ELSE /\ req'[r].pc = "compare"
                     /\ req'[r].user \in Holders(req[r].body.email)
          /\ req[r].pc = "compare" =>
                /\ req'[r].pc = "done"
                /\ IF req[r].user.password.plain = req[r].body.password
                      /\ req[r].user.password.rounds = 1
                   THEN /\ req'[r].status = 200
                        /\ VerifyJwt([Idle EXCEPT !.token = req'[r].rtoken]).userId
                              = IdString(req[r].user.id)
                   ELSE /\ req'[r].status = 401
                        /\ req'[r].message = MsgWrongPassword
                        /\ req'[r].rtoken = NoToken
      ]_vars

\* One login was answered 200 with a token for the user, another 401.
LoginContractWitness ==
    \E r, s \in Reqs :
        /\ req[r].handler = "login" /\ req[r].status = 200
        /\ VerifyOk(req[r].rtoken)
        /\ req[r].rtoken.sub = IdString(req[r].user.id)
        /\ req[s].handler = "login" /\ req[s].status = 401

\* C7: an update whose patch carries an email answers 400 "This email is
\* already in use." exactly when the store holds that email under a user
\* other than the token's; the caller's own email passes.  The 400 comes
\* from the email check only, and no step of the update before save()
\* writes to the store, so nothing of the patch (its name included) is
\* persisted and no other user's record changes.
UpdateEmailContract ==
    [][\A r \in Reqs : Steps(r, "update") =>
          /\ (req[r].pc = "checkEmail" /\ req'[r].err = None) =>
                ((/\ req'[r].pc = "done"
                  /\ req'[r].status = 400
                  /\ req'[r].message = MsgEmailInUse)
                 <=> \E u \in Holders(req[r].body.email) :
                        IdString(u.id) # req[r].token.sub)
          /\ req'[r].status = 400 =>
                /\ req[r].pc = "checkEmail"
                /\ Truthy(req[r].body.email)
                /\ req'[r].rtoken = NoToken
          /\ req[r].pc # "save" => users' = users
      ]_vars

\* The admin asked for the email and a new name while another user held
\* that email: 400, the name changed in the handler's copy only.
UpdateEmailContractWitness ==
    \E r \in Reqs :
        /\ req[r].handler = "update" /\ req[r].status = 400
        /\ req[r].body.name = NewName /\ req[r].user.name = NewName
        /\ \E u \in users :
              IdString(u.id) = req[r].token.sub /\ u.name # NewName
        /\ \E u \in Holders(req[r].body.email) :
              IdString(u.id) # req[r].token.sub

\* C2: a signup whose email a persisted user holds answers 400 "A profile
\* with this email already exists." without a token and without touching
\* the store; a signup whose email nobody holds answers 201 with a token
\* and adds exactly one user, with that email.  The email is judged where
\* the request is decided: at the findOne that turns it away, or at save().
SignupContract ==
    [][\A r \in Reqs :
          (Steps(r, "signup") /\ req'[r].pc = "done" /\ req'[r].err # "store") =>
             IF Holders(req[r].body.email) # {}
             THEN /\ req'[r].status = 400
                  /\ req'[r].message = MsgDuplicateEmail
                  /\ req'[r].rtoken = NoToken
                  /\ users' = users
             ELSE /\ req'[r].status = 201
                  /\ VerifyOk(req'[r].rtoken)
                  /\ users \subseteq users'
                  /\ Cardinality(users' \ users) = 1
                  /\ \A u \in users' \ users : u.email = req[r].body.email
      ]_vars

\* The routes of the interface that demand a token: the admin routes and
\* the two profile routes.
IsAdminRoute(q) == <<q.method, q.path>> \in AdminRoutes

IsProfileRoute(q) ==
    \/ q.method = "PATCH" /\ q.path = <<"users", "update">>
    \/ q.method = "DELETE" /\ q.path = <<"users", "delete">>

\* C4: an admin route answers 401 "Authentication token is required"
\* without a token, 401 "Invalid token" with a malformed one and 403
\* "Access denied! must be an admin." with the token of a user whose admin
\* flag is false; the two 401 answers hold for the profile routes as well.
AuthGate ==
    \A r \in Reqs :
        LET q == req[r]
        IN  (q.pc = "done" /\ (IsAdminRoute(q) \/ IsProfileRoute(q))) =>
               /\ q.token = NoToken =>
                     q.status = 401 /\ q.message = MsgTokenRequired
               /\ q.token = BadToken =>
                     q.status = 401 /\ q.message = MsgInvalidToken
               /\ (/\ IsAdminRoute(q)
                   /\ VerifyOk(q.token)
                   /\ \E u \in users : IdString(u.id) = q.token.sub /\ ~u.admin)
                    => q.status = 403 /\ q.message = MsgAccessDenied

\* C5: DELETE /menu/delete/category/:id by an admin answers 400 "Cannot
\* delete this category ..." while an item references the category, which
\* stays; 200 when none does, and the category is gone; 404 when no
\* category has the identifier.
DeleteCategoryContract ==
    \A r \in Reqs :
        LET q == req[r]
        IN  (/\ q.pc = "done" /\ q.err = None
             /\ q.method = "DELETE"
             /\ Len(q.path) = 4
             /\ SubSeq(q.path, 1, 3) = <<"menu", "delete", "category">>
             /\ \E u \in users : IdString(u.id) = q.token.sub /\ u.admin) =>
               IF ItemsOf(q.path[4]) # {}
               THEN /\ q.status = 400
                    /\ q.message = MsgCategoryInUse
                    /\ \E c \in categories : c.id = q.path[4]
               ELSE \/ q.status = 200 /\ ~\E c \in categories : c.id = q.path[4]
                    \/ q.status = 404

\* C6: GET /menu/category/:id answers 404 "There are currently no items in
\* this category." for a category without items and otherwise 200 with
\* exactly the items that reference the category.
CategoryItemsContract ==
    \A r \in Reqs :
        LET q == req[r]
        IN  (/\ q.pc = "done" /\ q.err = None
             /\ q.method = "GET"
             /\ Len(q.path) = 3
             /\ SubSeq(q.path, 1, 2) = <<"menu", "category">>) =>
               IF ItemsOf(q.path[3]) = {}
               THEN q.status = 404 /\ q.message = MsgNoItemsInCategory
               ELSE /\ q.status = 200
                    /\ q.result = {i.id : i \in ItemsOf(q.path[3])}
                    /\ Cardinality(q.result) = Cardinality(ItemsOf(q.path[3]))

\* C8: a delete answers 404 "User not found." when the store no longer
\* holds the token's user, and a delete that answers 200 has removed
\* exactly that user; so of two deletes with one token at most one
\* answers 200.
DeleteContract ==
    [][\A r \in Reqs : Steps(r, "delete") =>
          /\ (req[r].pc = "findById" /\ req'[r].err = None
                /\ ~\E u \in users : IdString(u.id) = req[r].token.sub) =>
                req'[r].status = 404 /\ req'[r].message = MsgUserNotFound
          /\ req'[r].status = 200 =>
                \E u \in users :
                    /\ IdString(u.id) = req[r].token.sub
                    /\ users' = users \ {u}
      ]_vars

\* C9: of two signups for one unused email that both passed the findOne
\* check, one answers 201 and the other 400 "A profile with this email
\* already exists."
SignupRace ==
    \A r, s \in Reqs :
        (/\ r # s
         /\ req[r].handler = "signup" /\ req[s].handler = "signup"
         /\ req[r].body.email = req[s].body.email
         /\ req[r].pc = "done" /\ req[s].pc = "done"
         /\ req[r].user # NoDoc /\ req[s].user # NoDoc
         /\ req[r].err # "store" /\ req[s].err # "store"
         /\ req[r].status = 201) =>
            req[s].status = 400 /\ req[s].message = MsgDuplicateEmail

\* C10: a request whose handler ended on a store failure has its response,
\* and the response is the error envelope: 500 "Error Occured!".
StoreFailureAnswered ==
    \A r \in Reqs :
        (req[r].pc = "done" /\ req[r].err = "store") =>
            req[r].status = 500 /\ req[r].message = MsgErrorOccured

\* C11: a request to a method and path that no route binds, whatever the
\* method (GET, POST, PATCH, DELETE), answers 404 with the message
\* "404 Page not found".
UnmatchedAnswered ==
    \A r \in Reqs :
        (/\ req[r].pc = "done"
         /\ req[r].method \in {"GET", "POST", "PATCH", "DELETE"}
         /\ req[r].handler \in {"pageNotFound", "noRoute"}) =>
            req[r].status = 404 /\ req[r].message = MsgPageNotFound

\* The stored form of a password: its plain text under one bcrypt round.
HashedOnce(p) == [plain |-> p, rounds |-> 1]

====
